---- MODULE Spec2Model ----
(***************************************************************************)
(* Model of the DataWareHouse export pipeline of cstbox/ext-dwh.            *)
(*                                                                         *)
(* DWHEventsExportProcess.run (lib/python/pycstbox/dwh/process.py) puts    *)
(* the job of the day in the durable backlog, then runs every job of the   *)
(* backlog as a DWHEventsExportJob: export_events, send_data (with         *)
(* retries), cleanup.  An accepted upload registers the remote job id in   *)
(* the PendingJobsQueue file.  The process can be killed at any step; the  *)
(* backlog and the pending queue file survive.                             *)
(***************************************************************************)
EXTENDS Integers, Sequences, FiniteSets, TLC

VARIABLES
    clock,        \* time source of make_jobid() and utcnow(), one tick per run
    backlog,      \* durable Backlog('dwh.events'): job id -> job parameters
    pendingFile,  \* durable PendingJobsQueue file: its characters
    nextRemote,   \* server side: the next remote job id to hand out
    pc,           \* position of the export process
    bl_jobs,      \* run(): backlog content read when the run starts
    new_job,      \* run(): id of the job of the day (0 before it is made)
    failed_jobs,  \* DWHEventsExportProcess._failed_jobs
    status_code,  \* value returned by run() (-1 while none)
    snapshot,     \* the sequence produced by backlog.iteritems()
    idx,          \* position of the for loop in snapshot
    job,          \* the DWHEventsExportJob being run (its fields and locals)
    hist,         \* history of the current run, read by the properties only
    cfg,          \* the configuration given to run(): its debug flag
    vd,           \* a run of DWHVariableDefinitionsExportProcess (its locals)
    queue,        \* a PendingJobsQueue object used through its methods
    w,            \* the Worker of dwh-monitord: its fields and locals
    conf,         \* a ProcessConfiguration object used through load_dict
    flt,          \* a call of EventsExportFilter.export_events
    jcall,        \* the last call made on a DWHEventsExportJob by hand
    xp            \* the PendingJobsQueue object of an export process

vars == << clock, backlog, pendingFile, nextRemote, pc, bl_jobs, new_job,
           failed_jobs, status_code, snapshot, idx, job, hist, cfg, vd, queue,
           w, conf, flt, jcall, xp >>

\* the objects used on their own, outside the processes
auxVars == << conf, flt, jcall, xp >>

\* the state of the events export process and of its stores
exportVars == << clock, backlog, pendingFile, nextRemote, pc, bl_jobs,
                new_job, failed_jobs, status_code, snapshot, idx, job, hist,
                cfg >>

-----------------------------------------------------------------------------
(* Bounds *)

\* number of invocations of run(), hence of job ids ever made
MaxRuns == 2

\* number of uploads the server accepts with a remote job id
MaxRemote == 2

\* retries.max_attempts of the configuration
MaxTry == 2

\* largest retries.max_attempts given to DWHVariableDefinitionsExportProcess
MaxDefsTry == 3

\* longest list of ids a PendingJobsQueue object is given
MaxQueue == 3

\* largest status_monitoring_period given to the Worker, in seconds
MaxPeriod == 2

\* number of remote job ids export processes append while the Worker runs
MaxWatchJobs == 3

\* number of ids removed by hand while the Worker runs
MaxManual == 1

-----------------------------------------------------------------------------
(* Program constants *)

ERR_NONE == 0

ERR_MULTIPLE == 999

\* error codes of DWHVariableDefinitionsExportProcess
ERR_EXPORT == 101

ERR_UPLOAD == 201

\* error codes returned by EventsExportJob.run
JOB_ERR_EXPORT == 1

JOB_ERR_SEND == 2

\* date_offset values of the configuration that are tried
DateOffsets == {-1, 0, 1}

\* a datetime is a number of time units, DayUnits of them in a day
DayUnits == 2

-----------------------------------------------------------------------------
(* Helpers *)

Range(s) == { s[i] : i \in DOMAIN s }

Abs(n) == IF n < 0 THEN -n ELSE n

EmptyMap == [j \in {} |-> 0]

\* all the orders in which a set can be enumerated
Perms(S) == { s \in [1..Cardinality(S) -> S] : Range(s) = S }

\* dictionary item assignment  d[k] = v
DictPut(d, k, v) == [j \in DOMAIN d \cup {k} |-> IF j = k THEN v ELSE d[j]]

\* dictionary item deletion  del d[k]
DictDel(d, k) == [j \in DOMAIN d \ {k} |-> d[j]]

\* a DWHEventsExportJob: _id, _archive (set or not), the temporary files it
\* has made that are on disk ("series" files, "archive"), and the locals of
\* its run: events count, attempts made, reply of the last POST (with the
\* jobID it carries), error code, pending exception
NoJob == [id |-> 0, archive |-> FALSE, files |-> {}, evt_count |-> 0,
          cnt |-> 0, resp |-> "none", remote |-> 0, error |-> ERR_NONE,
          exc |-> "none"]

\* the configuration when no run is in progress
NoCfg == [debug |-> FALSE]

\* history of a run: the job of the day was put, a payload build or upload
\* was started, the jobs activated, the code each returned, the remote id of
\* each accepted upload, the jobs that raised, the keys _failed_jobs held
\* when the run started, the backlog content when the process was killed
\* (kept until the end of the invocation that follows the kill), the jobs
\* whose day had no matching record, the pending queue file as it was when
\* the current job was activated
NoHist == [put |-> FALSE, acted |-> FALSE, executed |-> << >>,
           results |-> EmptyMap, accepted |-> EmptyMap, raised |-> {},
           stale |-> {}, orphans |-> {}, zero |-> {}, file0 |-> << >>,
           offset |-> 0]

-----------------------------------------------------------------------------
(* PendingJobsQueue *)

\* The file is a sequence of characters, an id a sequence of characters.

DigitChars == << "0", "1", "2", "3", "4", "5", "6", "7", "8", "9" >>

Whitespace == {" ", "\t", "\n", "\r"}

\* str(job_id) of a non-negative integer
RECURSIVE Str(_)
Str(n) ==
    IF n < 10
    THEN << DigitChars[n + 1] >>
    ELSE Str(n \div 10) \o << DigitChars[(n % 10) + 1] >>

\* str.strip()
RECURSIVE Strip(_)
Strip(line) ==
    IF line = << >> THEN << >>
    ELSE IF Head(line) \in Whitespace THEN Strip(Tail(line))
    ELSE IF line[Len(line)] \in Whitespace
         THEN Strip(SubSeq(line, 1, Len(line) - 1))
         ELSE line

\* iteration on a text file: its lines, each with its line end
RECURSIVE FileLines(_, _)
FileLines(text, cur) ==
    IF text = << >>
    THEN IF cur = << >> THEN << >> ELSE << cur >>
    ELSE IF Head(text) = "\n"
         THEN << Append(cur, "\n") >> \o FileLines(Tail(text), << >>)
         ELSE FileLines(Tail(text), Append(cur, Head(text)))

\* '\n'.join(ids)
RECURSIVE Join(_)
Join(ids) ==
    IF ids = << >> THEN << >>
    ELSE IF Len(ids) = 1 THEN ids[1]
    ELSE ids[1] \o << "\n" >> \o Join(Tail(ids))

\* a load() that keeps the lines as they are read
PendingLoad_NoStrip(file) == FileLines(file, << >>)

\* PendingJobsQueue(): load() reads the ids back, each line stripped
PendingLoad(file) ==
    LET lines == FileLines(file, << >>) IN
    [i \in 1..Len(lines) |-> Strip(lines[i])]

\* save(): the whole file is written again from the list
PendingSave(ids) == Join(ids)

\* append(job_id): str(job_id) is added to the list, which is saved
PendingAppend(ids, id) == PendingSave(Append(ids, Str(id)))

\* the ids a queue loaded from the file holds
PendingIds(file) == Range(PendingLoad(file))

-----------------------------------------------------------------------------
(* DWHEventsExportJob *)

\* What the data source gives for the job's day:
\*   "none"      no event at all
\*   "filtered"  events, none of which is kept by the filter
\*   "some"      events kept by the filter
\*   "error"     the export fails with ExportError
\*   "raise"     reading the events fails with another exception
\*   "raise_filter"   the filter raises once it has made series files
\*   "raise_archive"  create_archive raises once it has opened the archive
ExportOutcomes == {"none", "filtered", "some", "error", "raise",
                   "raise_filter", "raise_archive"}

\* the outcomes in which the data source has no matching record
ZeroOutcomes == {"none", "filtered"}

\* the temporary files export_events() leaves on disk: create_archive
\* deletes the series files once they are in the archive
export_files(outcome) ==
    CASE outcome \in {"filtered", "some"} -> {"archive"}
      [] outcome = "raise_filter" -> {"series"}
      [] outcome = "raise_archive" -> {"series", "archive"}
      [] OTHER -> {}

\* an export that counts the events before they are filtered
export_events_unfiltered(j, outcome) ==
    [j EXCEPT !.archive = outcome \in {"filtered", "some"},
              !.files = export_files(outcome),
              !.evt_count = IF outcome \in {"filtered", "some"} THEN 1 ELSE 0,
              !.exc = CASE outcome = "error" -> "ExportError"
                        [] outcome \in {"raise", "raise_filter", "raise_archive"}
                             -> "Exception"
                        [] OTHER -> "none"]

\* an export that keeps the archive reference it finds when it builds none
export_events_stale(j, outcome) ==
    [j EXCEPT !.archive = @ \/ outcome \in {"filtered", "some"},
              !.files = export_files(outcome),
              !.evt_count = IF outcome = "some" THEN 1 ELSE 0,
              !.exc = CASE outcome = "error" -> "ExportError"
                        [] outcome \in {"raise", "raise_filter", "raise_archive"}
                             -> "Exception"
                        [] OTHER -> "none"]

\* export_events(): the archive reference, the files and the events count
\* it leaves
export_events(j, outcome) ==
    [j EXCEPT !.archive = outcome \in {"filtered", "some"},
              !.files = export_files(outcome),
              !.evt_count = IF outcome = "some" THEN 1 ELSE 0,
              !.exc = CASE outcome = "error" -> "ExportError"
                        [] outcome \in {"raise", "raise_filter", "raise_archive"}
                             -> "Exception"
                        [] OTHER -> "none"]

\* The reply of the upload endpoint:
\*   "ok_id"    2xx, JSON body with message and jobID
\*   "ok_noid"  2xx, JSON body without jobID
\*   "fail"     not 2xx
Responses == {"ok_id", "ok_noid", "fail"}

\* send_data() goes on to the POST only when an archive is referenced
send_data_posts(j) == j.archive

\* send_data(), once the reply is there: the exception it ends with
\* ("none" when it returns)
send_data_exc(j) ==
    CASE j.resp = "ok_id" -> "none"
      [] j.resp = "ok_noid" -> "KeyError"
      [] OTHER -> "ExportError"

\* send_data() that forgets the pending queue
send_data_file_skip(j, file) == file

\* send_data(), once the reply is there: the pending queue file it leaves
send_data_file(j, file) ==
    IF j.resp = "ok_id"
    THEN PendingAppend(PendingLoad(file), j.remote)
    ELSE file

\* cleanup(): the archive is deleted unless in debug mode, and its reference
\* is dropped
cleanup(j, debug) ==
    [j EXCEPT !.files = IF j.archive /\ ~debug THEN @ \ {"archive"} ELSE @,
              !.archive = FALSE]

-----------------------------------------------------------------------------
\* no run of DWHVariableDefinitionsExportProcess
NoVd == [pc |-> "idle", max_try |-> 0, done |-> FALSE, error |-> ERR_NONE,
         cnt |-> 0, built |-> FALSE, fpos |-> "none", posts |-> << >>,
         sleeps |-> 0, slept |-> FALSE, exc |-> "none", ret |-> -1,
         backlog0 |-> EmptyMap, file0 |-> << >>]

\* no PendingJobsQueue object. exists: the storage file is on disk; job_ids:
\* the list in memory; op, arg, raised: the last call, its argument and the
\* exception it raised; ids0, file0, existed0: the list, the file and its
\* presence before that call; op0, arg0, raised0: the call before it
NoQueue == [obj |-> FALSE, exists |-> FALSE, job_ids |-> << >>,
            op |-> "none", arg |-> 0, raised |-> "none",
            ids0 |-> << >>, file0 |-> << >>, existed0 |-> FALSE,
            op0 |-> "none", arg0 |-> 0, raised0 |-> "none"]

\* a ProcessConfiguration object before any load: data is None. History:
\* the number of calls of load_dict, the dictionary given to the last one,
\* the data held before it, the exception it raised
NoConf == [data |-> << >>, calls |-> 0, input |-> << >>, data0 |-> << >>,
           raised |-> "none"]

\* no call of EventsExportFilter.export_events: the events given, the
\* prefix_with_type flag of the filter, whether the call was made, and what
\* it left: the count, the created files (series names, in creation
\* order), the positions of the events written to each file, the exception
NoFlt == [events |-> << >>, prefix |-> FALSE, called |-> FALSE,
          count |-> 0, files |-> << >>, written |-> EmptyMap,
          raised |-> "none"]

\* no call made on a job by hand. debug: the debug flag of the job's
\* configuration; op, outcome: the last call and what the data source gave
\* it; posted: it made a POST; raised: the exception it ended with;
\* archive0, files0, file0: the archive reference, the files on disk and
\* the pending queue file before it; op0: the call before it
NoJcall == [debug |-> FALSE, op |-> "none", outcome |-> "none",
            posted |-> FALSE, raised |-> "none", archive0 |-> FALSE,
            files0 |-> {}, file0 |-> << >>, op0 |-> "none"]

\* no PendingJobsQueue object in an export process: whether it is made, and
\* the list it has in memory
NoXp == [loaded |-> FALSE, job_ids |-> << >>]

\* the last removal the Worker made: the id, whether the storage file still
\* held it, whether an earlier check of it had failed at HTTP level
NoLast == [id |-> << >>, stored |-> TRUE, retried |-> FALSE]

\* no Worker running. Fields and locals of run(): period, since (the time
\* from last_check to now, counted up to MaxPeriod), _terminated, job_ids
\* (the list of the queue object), items, i (position of the for loop), exc.
\* History: polled and replies of the current polling phase; whether another
\* actor wrote the file during it (ext); the last tick's decision (entered,
\* tick_since, first); the ids appended by export processes that were
\* neither removed by hand nor seen with a terminal status (owed), with the
\* sleeps each has waited for its first poll (age); the number of removals
\* made by hand (manuals); the stored ids whose check failed at HTTP level
\* in an earlier phase (failed); whether a polling phase began after
\* terminate() (late_poll); the last removal the Worker made (last)
NoW == [pc |-> "start", period |-> 0, since |-> 0, terminated |-> FALSE,
        job_ids |-> << >>, items |-> << >>, i |-> 0, exc |-> "none",
        next |-> 1, polled |-> {}, replies |-> EmptyMap, ext |-> FALSE,
        entered |-> FALSE, tick_since |-> 0, first |-> TRUE,
        owed |-> {}, age |-> EmptyMap, manuals |-> 0, failed |-> {},
        late_poll |-> FALSE, last |-> NoLast]

\* the objects used on their own are not made yet
InitAux ==
    /\ conf = NoConf
    /\ flt = NoFlt
    /\ jcall = NoJcall
    /\ xp = NoXp

\* the stores before the first run: no backlog entry, no pending id
InitStores ==
    /\ backlog = EmptyMap
    /\ pendingFile = << >>

\* no run of the events export process yet
InitProcess ==
    /\ clock = 1
    /\ cfg = NoCfg
    /\ nextRemote = 1
    /\ pc = "idle"
    /\ bl_jobs = {}
    /\ new_job = 0
    /\ failed_jobs = EmptyMap
    /\ status_code = -1
    /\ snapshot = << >>
    /\ idx = 0
    /\ job = NoJob
    /\ hist = NoHist

Init ==
    /\ InitStores
    /\ InitProcess
    /\ InitAux
    /\ vd = NoVd
    /\ queue = NoQueue
    /\ w = NoW

-----------------------------------------------------------------------------
(* DWHEventsExportProcess.run *)

\* run() is entered: the backlog content is read for the log
Start ==
    /\ pc \in {"idle", "returned", "raised"}
    /\ clock <= MaxRuns
    /\ pc' = "started"
    /\ bl_jobs' = DOMAIN backlog
    /\ new_job' = 0
    /\ status_code' = -1
    /\ snapshot' = << >>
    /\ idx' = 0
    /\ job' = NoJob
    /\ hist' = [NoHist EXCEPT
                  !.stale = DOMAIN failed_jobs,
                  !.orphans = IF pc = "idle" THEN hist.orphans ELSE {}]
    /\ UNCHANGED << clock, backlog, pendingFile, nextRemote, failed_jobs >>
    /\ \E debug \in BOOLEAN : cfg' = [debug |-> debug]
    /\ UNCHANGED << vd, queue, w, auxVars >>

\* an extraction date that keeps the sign of the offset
extract_date_signed(utcnow, offset) ==
    (utcnow - offset * DayUnits) \div DayUnits

\* (utcnow() - timedelta(days=abs(offset))).date()
extract_date(utcnow, offset) ==
    (utcnow - Abs(offset) * DayUnits) \div DayUnits

\* the job of the day is made and put in the backlog; the run is at any time
\* of the day numbered clock
PutJob ==
    /\ pc = "started"
    /\ \E offset \in DateOffsets, time \in 0..(DayUnits - 1) :
          /\ backlog' = DictPut(backlog, clock,
                  [date |-> extract_date(clock * DayUnits + time, offset)])
          /\ hist' = [hist EXCEPT !.put = TRUE, !.offset = offset]
    /\ new_job' = clock
    /\ clock' = clock + 1
    /\ pc' = "queued"
    /\ UNCHANGED << pendingFile, nextRemote, bl_jobs, failed_jobs, status_code,
                    snapshot, idx, job >>
    /\ UNCHANGED << cfg, vd, queue, w, auxVars >>

\* the iteration started without waiting for the job of the day to be put
BeginLoop_Early ==
    /\ pc \in {"started", "queued"}
    /\ failed_jobs' = EmptyMap
    /\ \E order \in Perms(DOMAIN backlog) : snapshot' = order
    /\ idx' = 1
    /\ pc' = "loop"
    /\ UNCHANGED << clock, backlog, pendingFile, nextRemote, bl_jobs, new_job,
                    status_code, job, hist >>
    /\ UNCHANGED << cfg, vd, queue, w, auxVars >>

\* the iteration started with _failed_jobs left as the last run filled it
BeginLoop_NoReset ==
    /\ pc = "queued"
    /\ \E order \in Perms(DOMAIN backlog) : snapshot' = order
    /\ idx' = 1
    /\ pc' = "loop"
    /\ UNCHANGED << clock, backlog, pendingFile, nextRemote, bl_jobs, new_job,
                    failed_jobs, status_code, job, hist >>
    /\ UNCHANGED << cfg, vd, queue, w, auxVars >>

\* the retry policy is read, _failed_jobs is reset, the iteration starts
BeginLoop ==
    /\ pc = "queued"
    /\ failed_jobs' = EmptyMap
    /\ \E order \in Perms(DOMAIN backlog) : snapshot' = order
    /\ idx' = 1
    /\ pc' = "loop"
    /\ UNCHANGED << clock, backlog, pendingFile, nextRemote, bl_jobs, new_job,
                    status_code, job, hist >>
    /\ UNCHANGED << cfg, vd, queue, w, auxVars >>

\* the next job of the iteration is built and its run() is entered
ActivateJob ==
    /\ pc = "loop"
    /\ idx <= Len(snapshot)
    /\ job' = [NoJob EXCEPT !.id = snapshot[idx]]
    /\ hist' = [hist EXCEPT !.executed = Append(@, snapshot[idx]),
                            !.file0 = pendingFile]
    /\ pc' = "export"
    /\ UNCHANGED << clock, backlog, pendingFile, nextRemote, bl_jobs, new_job,
                    failed_jobs, status_code, snapshot, idx >>
    /\ UNCHANGED << cfg, vd, queue, w, auxVars >>

\* EventsExportJob.run, first step: the payload is built
JobExport ==
    /\ pc = "export"
    /\ \E outcome \in ExportOutcomes :
          LET j == export_events(job, outcome) IN
          /\ job' = IF j.exc = "ExportError"
                    THEN [j EXCEPT !.exc = "none", !.error = JOB_ERR_EXPORT]
                    ELSE j
          /\ pc' = IF j.exc = "none" /\ j.evt_count > 0 THEN "send" ELSE "cleanup"
          /\ hist' = [hist EXCEPT
                       !.acted = TRUE,
                       !.zero = IF outcome \in ZeroOutcomes
                                THEN @ \cup {job.id} ELSE @]
    /\ UNCHANGED << clock, backlog, pendingFile, nextRemote, bl_jobs, new_job,
                    failed_jobs, status_code, snapshot, idx >>
    /\ UNCHANGED << cfg, vd, queue, w, auxVars >>

\* send_data(), first half: the archive is POSTed and the server replies
JobPost ==
    /\ pc = "send"
    /\ job.archive
    /\ \E resp \in Responses :
          /\ resp = "ok_id" => nextRemote <= MaxRemote
          /\ job' = [job EXCEPT !.cnt = @ + 1,
                                !.resp = resp,
                                !.remote = IF resp = "ok_id" THEN nextRemote ELSE 0]
          /\ nextRemote' = IF resp = "ok_id" THEN nextRemote + 1 ELSE nextRemote
          /\ hist' = [hist EXCEPT
                       !.acted = TRUE,
                       !.accepted = IF resp = "ok_id"
                                    THEN DictPut(@, job.id, nextRemote) ELSE @]
    /\ pc' = "posted"
    /\ UNCHANGED << clock, backlog, pendingFile, bl_jobs, new_job, failed_jobs,
                    status_code, snapshot, idx >>
    /\ UNCHANGED << cfg, vd, queue, w, auxVars >>

\* send_data(), second half: the reply is handled; then EventsExportJob.run
\* ends the attempts, or goes for another one if send_data raised ExportError
JobReply ==
    /\ pc = "posted"
    /\ LET exc == send_data_exc(job) IN
       /\ pendingFile' = send_data_file(job, pendingFile)
       /\ job' = [job EXCEPT
                    !.exc = IF exc = "ExportError" THEN "none" ELSE exc,
                    !.error = IF exc = "ExportError" /\ job.cnt >= MaxTry
                              THEN JOB_ERR_SEND ELSE @]
       /\ pc' = IF exc = "ExportError" /\ job.cnt < MaxTry
                THEN "sleep" ELSE "cleanup"
    /\ UNCHANGED << clock, backlog, nextRemote, bl_jobs, new_job, failed_jobs,
                    status_code, snapshot, idx, hist >>
    /\ UNCHANGED << cfg, vd, queue, w, auxVars >>

\* EventsExportJob.run, the wait of retry_delay before the next attempt
JobSleep ==
    /\ pc = "sleep"
    /\ pc' = "send"
    /\ UNCHANGED << clock, backlog, pendingFile, nextRemote, bl_jobs, new_job,
                    failed_jobs, status_code, snapshot, idx, job, hist >>
    /\ UNCHANGED << cfg, vd, queue, w, auxVars >>

\* EventsExportJob.run, last step: cleanup, then the job returns or raises
JobCleanup ==
    /\ pc = "cleanup"
    /\ job' = cleanup(job, cfg.debug)
    /\ pc' = "jobdone"
    /\ hist' = IF job.exc = "none"
               THEN [hist EXCEPT !.results = DictPut(@, job.id, job.error)]
               ELSE [hist EXCEPT !.raised = @ \cup {job.id}]
    /\ UNCHANGED << clock, backlog, pendingFile, nextRemote, bl_jobs, new_job,
                    failed_jobs, status_code, snapshot, idx >>
    /\ UNCHANGED << cfg, vd, queue, w, auxVars >>

\* the job leaves the backlog whatever job.run returned
AfterJob_AlwaysDel ==
    /\ pc = "jobdone"
    /\ job.exc = "none"
    /\ backlog' = DictDel(backlog, job.id)
    /\ failed_jobs' = IF job.error = ERR_NONE
                      THEN failed_jobs
                      ELSE DictPut(failed_jobs, job.id, job.error)
    /\ idx' = idx + 1
    /\ pc' = "loop"
    /\ UNCHANGED << clock, pendingFile, nextRemote, bl_jobs, new_job,
                    status_code, snapshot, job, hist >>
    /\ UNCHANGED << cfg, vd, queue, w, auxVars >>

\* job.run returned error_code: the job leaves the backlog or is recorded
AfterJob ==
    /\ pc = "jobdone"
    /\ job.exc = "none"
    /\ IF job.error = ERR_NONE
       THEN /\ backlog' = DictDel(backlog, job.id)
            /\ UNCHANGED failed_jobs
       ELSE /\ failed_jobs' = DictPut(failed_jobs, job.id, job.error)
            /\ UNCHANGED backlog
    /\ idx' = idx + 1
    /\ pc' = "loop"
    /\ UNCHANGED << clock, pendingFile, nextRemote, bl_jobs, new_job,
                    status_code, snapshot, job, hist >>
    /\ UNCHANGED << cfg, vd, queue, w, auxVars >>

\* job.run raised: nothing in run() catches it
JobRaised ==
    /\ pc = "jobdone"
    /\ job.exc # "none"
    /\ pc' = "raised"
    /\ UNCHANGED << clock, backlog, pendingFile, nextRemote, bl_jobs, new_job,
                    failed_jobs, status_code, snapshot, idx, job, hist >>
    /\ UNCHANGED << cfg, vd, queue, w, auxVars >>

\* the status code taken from one failed job, however many failed
Aggregate_First(failed) ==
    IF DOMAIN failed = {}
    THEN ERR_NONE
    ELSE failed[CHOOSE j \in DOMAIN failed : TRUE]

\* the status code run() returns for a given _failed_jobs
Aggregate(failed) ==
    IF DOMAIN failed = {}
    THEN ERR_NONE
    ELSE IF Cardinality(DOMAIN failed) = 1
         THEN failed[CHOOSE j \in DOMAIN failed : TRUE]
         ELSE ERR_MULTIPLE

\* the iteration is over: the status code is computed and returned
Return ==
    /\ pc = "loop"
    /\ idx > Len(snapshot)
    /\ status_code' = Aggregate(failed_jobs)
    /\ pc' = "returned"
    /\ UNCHANGED << clock, backlog, pendingFile, nextRemote, bl_jobs, new_job,
                    failed_jobs, snapshot, idx, job, hist >>
    /\ UNCHANGED << cfg, vd, queue, w, auxVars >>

\* the process is killed in the middle of a run: only the files survive
Kill ==
    /\ pc \notin {"idle", "returned", "raised"}
    /\ pc' = "idle"
    /\ bl_jobs' = {}
    /\ new_job' = 0
    /\ failed_jobs' = EmptyMap
    /\ status_code' = -1
    /\ snapshot' = << >>
    /\ idx' = 0
    /\ job' = NoJob
    /\ hist' = [NoHist EXCEPT !.orphans = DOMAIN backlog]
    /\ UNCHANGED << clock, backlog, pendingFile, nextRemote >>
    /\ cfg' = NoCfg
    /\ UNCHANGED << vd, queue, w, auxVars >>

Next ==
    \/ Start
    \/ PutJob
    \/ BeginLoop
    \/ ActivateJob
    \/ JobExport
    \/ JobPost
    \/ JobReply
    \/ JobSleep
    \/ JobCleanup
    \/ AfterJob
    \/ JobRaised
    \/ Return
    \/ Kill

Spec == Init /\ [][Next]_vars

-----------------------------------------------------------------------------
(* DWHVariableDefinitionsExportProcess.run *)

\* What export_variable_definitions does: "data" it returns the definitions,
\* "raise" it fails with an exception
DefsOutcomes == {"data", "raise"}

\* The reply to a POST of the definitions:
\*   "ok"     2xx, JSON body with message
\*   "fail"   not 2xx
\*   "raise"  requests.post raises (no reply)
DefsReplies == {"ok", "fail", "raise"}

\* the stores as a run of the process can find them
DefsBacklogs == {EmptyMap, [j \in {1} |-> [date |-> 0]]}

DefsPendingFiles == {<< >>, PendingSave(<< Str(1), Str(12) >>)}

InitDefs ==
    /\ InitProcess
    /\ InitAux
    /\ backlog \in DefsBacklogs
    /\ pendingFile \in DefsPendingFiles
    /\ vd = NoVd
    /\ queue = NoQueue
    /\ w = NoW

\* run() is entered with a configuration: done is False, error is ERR_EXPORT
VdStart ==
    /\ vd.pc = "idle"
    /\ \E n \in 1..MaxDefsTry :
          vd' = [NoVd EXCEPT !.pc = "export", !.max_try = n,
                                 !.done = FALSE, !.error = ERR_EXPORT,
                                 !.backlog0 = backlog,
                                 !.file0 = pendingFile]
    /\ UNCHANGED << exportVars, queue, w, auxVars >>

\* an export failure that is logged and then goes on to the upload
VdExport_Fallthrough ==
    /\ vd.pc = "export"
    /\ \E outcome \in DefsOutcomes :
          vd' = IF outcome = "data"
                THEN [vd EXCEPT !.built = TRUE, !.fpos = "start", !.pc = "loop"]
                ELSE [vd EXCEPT !.fpos = "start", !.pc = "loop"]
    /\ UNCHANGED << exportVars, queue, w, auxVars >>

\* the definitions are built; on success they are dumped in the temporary
\* file, which is rewound; an exception is logged and ends the attempts
VdExport ==
    /\ vd.pc = "export"
    /\ \E outcome \in DefsOutcomes :
          vd' = IF outcome = "data"
                THEN [vd EXCEPT !.built = TRUE, !.fpos = "start", !.pc = "loop"]
                ELSE [vd EXCEPT !.pc = "end"]
    /\ UNCHANGED << exportVars, queue, w, auxVars >>

\* a reply handling that waits after the last attempt too
VdAfterReply_WaitLast(reply, cnt, max_try) ==
    CASE reply = "raise" -> "raised"
      [] reply = "fail" /\ cnt <= max_try -> "sleep"
      [] OTHER -> "loop"

\* where run() goes once requests.post is over: the exception leaves run(),
\* a failure is followed by a wait if attempts remain, else the loop goes on
VdAfterReply(reply, cnt, max_try) ==
    CASE reply = "raise" -> "raised"
      [] reply = "fail" /\ cnt < max_try -> "sleep"
      [] OTHER -> "loop"

\* one turn of the while loop: a POST of the file from its read position,
\* and the handling of the reply
VdPost ==
    /\ vd.pc = "loop"
    /\ ~vd.done /\ vd.cnt < vd.max_try
    /\ \E reply \in DefsReplies :
          LET cnt == vd.cnt + 1
              sent == [reply |-> reply,
                       body |-> IF vd.fpos = "start" THEN "whole" ELSE "nothing",
                       after_wait |-> vd.slept]
          IN
          vd' = [vd EXCEPT
                   !.cnt = cnt,
                   !.posts = Append(@, sent),
                   !.fpos = "end",
                   !.slept = FALSE,
                   !.done = (reply = "ok"),
                   !.exc = IF reply = "raise" THEN "RequestException" ELSE "none",
                   !.pc = VdAfterReply(reply, cnt, vd.max_try)]
    /\ UNCHANGED << exportVars, queue, w, auxVars >>

\* time.sleep(retry_delay) before the next turn
VdSleep ==
    /\ vd.pc = "sleep"
    /\ vd' = [vd EXCEPT !.sleeps = @ + 1, !.slept = TRUE, !.pc = "loop"]
    /\ UNCHANGED << exportVars, queue, w, auxVars >>

\* the while loop is left: done, or max_try turns made
VdLoopEnd ==
    /\ vd.pc = "loop"
    /\ ~(~vd.done /\ vd.cnt < vd.max_try)
    /\ vd' = [vd EXCEPT !.pc = "end"]
    /\ UNCHANGED << exportVars, queue, w, auxVars >>

\* an error code that is 0 as soon as the payload was built
VdError_Built(v) == IF v.built THEN ERR_NONE ELSE v.error

\* the error code run() returns
VdError(v) == IF v.done THEN ERR_NONE ELSE v.error

\* a run() that puts a failed export in the backlog for a later invocation
VdReturn_Requeue ==
    /\ vd.pc = "end"
    /\ vd' = [vd EXCEPT !.error = VdError(vd), !.ret = VdError(vd),
                        !.pc = "returned"]
    /\ backlog' = IF vd.done THEN backlog
                  ELSE DictPut(backlog, MaxRuns + 1, [date |-> 0])
    /\ UNCHANGED << clock, pendingFile, nextRemote, pc, bl_jobs, new_job,
                    failed_jobs, status_code, snapshot, idx, job, hist, cfg >>
    /\ UNCHANGED << queue, w, auxVars >>

\* run() returns its error code
VdReturn ==
    /\ vd.pc = "end"
    /\ vd' = [vd EXCEPT !.error = VdError(vd), !.ret = VdError(vd),
                        !.pc = "returned"]
    /\ UNCHANGED << exportVars, queue, w, auxVars >>

\* the process object is used for another run
VdAgain ==
    /\ vd.pc \in {"returned", "raised"}
    /\ vd' = NoVd
    /\ UNCHANGED << exportVars, queue, w, auxVars >>

NextDefs ==
    \/ VdStart
    \/ VdExport
    \/ VdPost
    \/ VdSleep
    \/ VdLoopEnd
    \/ VdReturn
    \/ VdAgain

SpecDefs == InitDefs /\ [][NextDefs]_vars

-----------------------------------------------------------------------------
(* PendingJobsQueue objects *)

\* the variables no PendingJobsQueue call changes
processVars == << clock, backlog, nextRemote, pc, bl_jobs, new_job,
                 failed_jobs, status_code, snapshot, idx, job, hist, cfg, vd >>

\* the job ids given to append() and remove()
QueueIds == {1, 12}

\* the storage file is missing, or it is one that save() has written
InitQueue ==
    /\ InitProcess
    /\ InitAux
    /\ backlog = EmptyMap
    /\ vd = NoVd
    /\ \E exists \in BOOLEAN :
          /\ queue = [NoQueue EXCEPT !.exists = exists]
          /\ w = NoW
          /\ pendingFile \in (IF exists THEN DefsPendingFiles ELSE {<< >>})

\* list.remove(x): the first occurrence of x is taken out
RECURSIVE list_remove(_, _)
list_remove(ids, x) ==
    IF ids = << >> THEN << >>
    ELSE IF Head(ids) = x THEN Tail(ids)
    ELSE << Head(ids) >> \o list_remove(Tail(ids), x)

\* a list.remove that raises nothing
remove_silent(ids, x) == FALSE

\* a remove() whose save is put off: the storage file stays as it is
remove_file_deferred(ids, x, file) == file

\* remove(job_id) of an id of the list: the storage file save() leaves
remove_file(ids, x, file) == PendingSave(list_remove(ids, x))

\* list.remove(x) raises ValueError when x is not in the list
remove_raises(ids, x) == x \notin Range(ids)

\* the record of a call: what it was, and the state it began in
Called(op, arg) ==
    [queue EXCEPT !.op = op, !.arg = arg, !.raised = "none",
                  !.ids0 = queue.job_ids, !.file0 = pendingFile,
                  !.existed0 = queue.exists,
                  !.op0 = queue.op, !.arg0 = queue.arg,
                  !.raised0 = queue.raised]

\* PendingJobsQueue(path): the list is loaded from the file if there is
\* one, otherwise an empty list is saved
QueueNew ==
    /\ queue' = [Called("new", 0) EXCEPT
                   !.obj = TRUE,
                   !.exists = TRUE,
                   !.job_ids = IF queue.exists THEN PendingLoad(pendingFile)
                               ELSE << >>]
    /\ pendingFile' = IF queue.exists THEN pendingFile ELSE PendingSave(<< >>)
    /\ UNCHANGED << processVars, w, auxVars >>

\* append(job_id)
QueueAppend ==
    /\ queue.obj
    /\ Len(queue.job_ids) < MaxQueue
    /\ \E id \in QueueIds :
          /\ queue' = [Called("append", id) EXCEPT
                         !.job_ids = Append(@, Str(id))]
          /\ pendingFile' = PendingAppend(queue.job_ids, id)
    /\ UNCHANGED << processVars, w, auxVars >>

\* remove(job_id): save() is not reached when list.remove raises
QueueRemove ==
    /\ queue.obj
    /\ \E id \in QueueIds :
          IF remove_raises(queue.job_ids, Str(id))
          THEN /\ queue' = [Called("remove", id) EXCEPT !.raised = "ValueError"]
               /\ UNCHANGED pendingFile
          ELSE /\ queue' = [Called("remove", id) EXCEPT
                              !.job_ids = list_remove(@, Str(id))]
               /\ pendingFile' = remove_file(queue.job_ids, Str(id),
                                             pendingFile)
    /\ UNCHANGED << processVars, w, auxVars >>

\* clear()
QueueClear ==
    /\ queue.obj
    /\ queue' = [Called("clear", 0) EXCEPT !.job_ids = << >>]
    /\ pendingFile' = PendingSave(<< >>)
    /\ UNCHANGED << processVars, w, auxVars >>

NextQueue ==
    \/ QueueNew
    \/ QueueAppend
    \/ QueueRemove
    \/ QueueClear

SpecQueue == InitQueue /\ [][NextQueue]_vars

-----------------------------------------------------------------------------
(* dwh-monitord: Worker.run, with export processes and manual removals *)

\* seconds slept between two looks at _terminated
TERMINATE_CHECK_PERIOD == 1

\* completion codes the server replies: in process, completed, an error
StatusCodes == {1, 0, -3}

\* what a status request gets: a 2xx reply with a completion code, a non-2xx
\* reply, an exception raised by requests.get, a 2xx reply that json.loads
\* or reply['code'] cannot read
WatchReplies ==
    [kind : {"ok"}, code : StatusCodes]
        \cup { [kind |-> k, code |-> 0] : k \in {"fail", "raise", "garbled"} }

\* the Worker starts with an empty storage file
InitWatch ==
    /\ InitProcess
    /\ InitAux
    /\ InitStores
    /\ vd = NoVd
    /\ queue = NoQueue
    /\ w = NoW

\* the smaller of two numbers
Min(a, b) == IF a < b THEN a ELSE b

\* a polling phase only when more than the period has elapsed
due_late(since, period) == since > period

\* now - last_check >= period
due(since, period) == since >= period

\* a removal of completed jobs only
removes_completed(code) == code = 0

\* a removal of the jobs in error only
removes_errors(code) == code < 0

\* the completion codes after which the job is removed from the queue
removes(code) == code = 0 \/ code < 0

\* a removal made on a queue object loaded again from the file
watch_list_fresh(job_ids, file) == PendingLoad(file)

\* the list queue.remove() works on: the one of the queue object made when
\* the polling phase began
watch_list(job_ids, file) == job_ids

\* run() up to the loop: the period is read, last_check = 0
WRun ==
    /\ w.pc = "start"
    /\ \E period \in 1..MaxPeriod :
          w' = [w EXCEPT !.pc = "tick", !.period = period,
                         !.since = MaxPeriod]
    /\ UNCHANGED << pendingFile, processVars, queue, auxVars >>

\* top of the loop: now is read; when a polling phase is due the queue is
\* loaded from the file
WTick ==
    /\ w.pc = "tick"
    /\ IF due(w.since, w.period)
       THEN w' = [w EXCEPT !.pc = "poll",
                           !.job_ids = PendingLoad(pendingFile),
                           !.items = PendingLoad(pendingFile),
                           !.i = 1,
                           !.polled = {}, !.replies = EmptyMap,
                           !.ext = FALSE,
                           !.failed = @ \cap PendingIds(pendingFile),
                           !.entered = TRUE, !.tick_since = w.since,
                           !.late_poll = @ \/ w.terminated]
       ELSE w' = [w EXCEPT !.pc = "check",
                           !.entered = FALSE, !.tick_since = w.since]
    /\ UNCHANGED << pendingFile, processVars, queue, auxVars >>

\* the status of the next id of items() is requested
WRequest ==
    /\ w.pc = "poll"
    /\ w.i <= Len(w.items)
    /\ w' = [w EXCEPT !.pc = "wait",
                      !.polled = @ \cup {w.items[w.i]},
                      !.age = DictDel(@, w.items[w.i]),
                      !.last = NoLast]
    /\ UNCHANGED << pendingFile, processVars, queue, auxVars >>

\* the reply to the request: the job is removed after a completion code
\* that asks for it, an exception leaves run()
WReplyWith(reply) ==
    LET id == w.items[w.i]
        list == watch_list(w.job_ids, pendingFile)
        seen == [w EXCEPT !.replies = DictPut(@, id, reply),
                          !.first = FALSE] IN
    /\ w.pc = "wait"
    /\ CASE reply.kind = "ok" /\ removes(reply.code) ->
               LET done == [seen EXCEPT
                              !.owed = @ \ {id},
                              !.failed = @ \ {id},
                              !.last = [id |-> id,
                                        stored |-> id \in PendingIds(pendingFile),
                                        retried |-> id \in w.failed]] IN
               IF remove_raises(list, id)
               THEN /\ w' = [done EXCEPT !.pc = "raised",
                                         !.exc = "ValueError"]
                    /\ UNCHANGED pendingFile
               ELSE /\ w' = [done EXCEPT !.pc = "poll", !.i = @ + 1,
                                         !.job_ids = list_remove(list, id)]
                    /\ pendingFile' = remove_file(list, id, pendingFile)
         [] reply.kind = "ok" /\ ~removes(reply.code) ->
               /\ w' = [seen EXCEPT !.pc = "poll", !.i = @ + 1]
               /\ UNCHANGED pendingFile
         [] reply.kind = "fail" ->
               /\ w' = [seen EXCEPT !.pc = "poll", !.i = @ + 1,
                                    !.failed = @ \cup {id}]
               /\ UNCHANGED pendingFile
         [] OTHER ->
               /\ w' = [seen EXCEPT !.pc = "raised",
                                    !.exc = IF reply.kind = "raise"
                                            THEN "RequestException"
                                            ELSE "ValueError"]
               /\ UNCHANGED pendingFile
    /\ UNCHANGED << processVars, queue, auxVars >>

WReply == \E reply \in WatchReplies : WReplyWith(reply)

\* the for loop is over: last_check = now
WEndPoll ==
    /\ w.pc = "poll"
    /\ w.i > Len(w.items)
    /\ w' = [w EXCEPT !.pc = "check", !.since = 0, !.first = FALSE,
                      !.last = NoLast]
    /\ UNCHANGED << pendingFile, processVars, queue, auxVars >>

\* _terminated is looked at; the locals of a polling phase are of no use
\* once the Worker goes to sleep
WCheck ==
    /\ w.pc = "check"
    /\ IF w.terminated
       THEN w' = [w EXCEPT !.pc = "done", !.first = FALSE]
       ELSE w' = [w EXCEPT !.pc = "sleep", !.first = FALSE,
                           !.job_ids = << >>, !.items = << >>, !.i = 0,
                           !.polled = {}, !.replies = EmptyMap,
                           !.ext = FALSE]
    /\ UNCHANGED << pendingFile, processVars, queue, auxVars >>

\* time.sleep(TERMINATE_CHECK_PERIOD)
WSleep ==
    /\ w.pc = "sleep"
    /\ w' = [w EXCEPT
               !.pc = "tick",
               !.since = Min(@ + TERMINATE_CHECK_PERIOD, MaxPeriod),
               !.age = [id \in DOMAIN w.age \cap PendingIds(pendingFile) |->
                           Min(w.age[id] + TERMINATE_CHECK_PERIOD,
                               MaxPeriod + 2)]]
    /\ UNCHANGED << pendingFile, processVars, queue, auxVars >>

\* terminate(), called from another thread
WTerminate ==
    /\ w.pc \notin {"start", "done", "raised"}
    /\ ~w.terminated
    /\ w' = [w EXCEPT !.terminated = TRUE]
    /\ UNCHANGED << pendingFile, processVars, queue, auxVars >>

\* an export process registers the id of an accepted upload:
\* PendingJobsQueue().append(job_id), its load and its save taken as one
\* step (XpLoad and XpAppend are the two steps apart)
ExportAppends ==
    /\ w.next <= MaxWatchJobs
    /\ pendingFile' = PendingAppend(PendingLoad(pendingFile), w.next)
    /\ w' = [w EXCEPT !.next = @ + 1,
                      !.owed = @ \cup {Str(w.next)},
                      !.age = DictPut(@, Str(w.next), 0),
                      !.ext = TRUE]
    /\ UNCHANGED << processVars, queue, auxVars >>

\* an id is removed by hand: PendingJobsQueue().remove(job_id)
ManualRemove ==
    /\ w.manuals < MaxManual
    /\ \E id \in PendingIds(pendingFile) :
          /\ pendingFile' = PendingSave(list_remove(PendingLoad(pendingFile), id))
          /\ w' = [w EXCEPT !.manuals = @ + 1, !.owed = @ \ {id},
                            !.ext = TRUE]
    /\ UNCHANGED << processVars, queue, auxVars >>

\* the steps of the Worker thread
WorkerStep ==
    \/ WRun
    \/ WTick
    \/ WRequest
    \/ WReply
    \/ WEndPoll
    \/ WCheck
    \/ WSleep

\* the Worker, export processes and removals by hand
NextWatch ==
    \/ WorkerStep
    \/ ExportAppends
    \/ ManualRemove

SpecWatch == InitWatch /\ [][NextWatch]_vars

\* the Worker, export processes and a call of terminate()
NextWatchStop ==
    \/ WorkerStep
    \/ WTerminate
    \/ ExportAppends

SpecWatchStop == InitWatch /\ [][NextWatchStop]_vars

\* the server replies to a status request for id with a terminal code
WTerminalReply(id) ==
    /\ w.pc = "wait"
    /\ w.items[w.i] = id
    /\ \E code \in { c \in StatusCodes : c <= 0 } :
          WReplyWith([kind |-> "ok", code |-> code])

\* the Worker and export processes
NextWatchFair ==
    \/ WorkerStep
    \/ ExportAppends

\* The Worker thread keeps running, and the server ends up replying with a
\* terminal code for each id it is asked about again and again.
SpecWatchFair ==
    /\ InitWatch
    /\ [][NextWatchFair]_vars
    /\ WF_vars(WorkerStep)
    /\ \A n \in 1..MaxWatchJobs : SF_vars(WTerminalReply(Str(n)))

-----------------------------------------------------------------------------
(* The Worker and the two steps of send_data on the pending queue *)

\* send_data, queue = PendingJobsQueue(): the export process loads the list
\* from the storage file
XpLoad ==
    /\ w.next <= MaxWatchJobs
    /\ ~xp.loaded
    /\ xp' = [loaded |-> TRUE, job_ids |-> PendingLoad(pendingFile)]
    /\ UNCHANGED << pendingFile, processVars, queue, w, conf, flt, jcall >>

\* send_data, queue.append(job_id): the id is added to the list loaded
\* before, and the list is saved
XpAppend ==
    /\ xp.loaded
    /\ pendingFile' = PendingAppend(xp.job_ids, w.next)
    /\ w' = [w EXCEPT !.next = @ + 1,
                      !.owed = @ \cup {Str(w.next)},
                      !.age = DictPut(@, Str(w.next), 0),
                      !.ext = TRUE]
    /\ xp' = NoXp
    /\ UNCHANGED << processVars, queue, conf, flt, jcall >>

\* the Worker and an export process whose load and save are two steps
NextWatchRace ==
    \/ WorkerStep
    \/ XpLoad
    \/ XpAppend

SpecWatchRace == InitWatch /\ [][NextWatchRace]_vars

-----------------------------------------------------------------------------
(* A DWHEventsExportJob whose methods are called one by one *)

\* a job is made, with a configuration in debug mode or not; the pending
\* queue file is empty or holds ids
InitJob ==
    /\ InitProcess
    /\ backlog = EmptyMap
    /\ pendingFile \in DefsPendingFiles
    /\ vd = NoVd
    /\ queue = NoQueue
    /\ w = NoW
    /\ conf = NoConf
    /\ flt = NoFlt
    /\ xp = NoXp
    /\ \E debug \in BOOLEAN : jcall = [NoJcall EXCEPT !.debug = debug]

\* the record of a call: what it is, and the state it begins in
JobCalled(op) ==
    [jcall EXCEPT !.op = op, !.outcome = "none", !.posted = FALSE,
                  !.raised = "none", !.archive0 = job.archive,
                  !.files0 = job.files, !.file0 = pendingFile,
                  !.op0 = jcall.op]

\* job.export_events(): the files of earlier calls stay on disk
JcExport ==
    /\ \E outcome \in ExportOutcomes :
          LET j == export_events(job, outcome) IN
          /\ job' = [j EXCEPT !.files = @ \cup job.files, !.exc = "none"]
          /\ jcall' = [JobCalled("export_events") EXCEPT
                         !.outcome = outcome, !.raised = j.exc]
    /\ UNCHANGED << clock, backlog, pendingFile, nextRemote, pc, bl_jobs,
                    new_job, failed_jobs, status_code, snapshot, idx, hist,
                    cfg >>
    /\ UNCHANGED << vd, queue, w, conf, flt, xp >>

\* job.send_data(): it returns at once when no archive is referenced;
\* otherwise the archive is POSTed and the reply is handled
JcSend ==
    /\ IF ~send_data_posts(job)
       THEN /\ jcall' = JobCalled("send_data")
            /\ UNCHANGED << job, pendingFile, nextRemote >>
       ELSE \E resp \in Responses :
               LET j == [job EXCEPT
                           !.resp = resp,
                           !.remote = IF resp = "ok_id" THEN nextRemote
                                      ELSE 0] IN
               /\ resp = "ok_id" => nextRemote <= MaxRemote
               /\ job' = j
               /\ nextRemote' = IF resp = "ok_id" THEN nextRemote + 1
                                ELSE nextRemote
               /\ pendingFile' = send_data_file(j, pendingFile)
               /\ jcall' = [JobCalled("send_data") EXCEPT
                              !.posted = TRUE,
                              !.raised = send_data_exc(j)]
    /\ UNCHANGED << clock, backlog, pc, bl_jobs, new_job, failed_jobs,
                    status_code, snapshot, idx, hist, cfg >>
    /\ UNCHANGED << vd, queue, w, conf, flt, xp >>

\* job.cleanup()
JcCleanup ==
    /\ job' = cleanup(job, jcall.debug)
    /\ jcall' = JobCalled("cleanup")
    /\ UNCHANGED << clock, backlog, pendingFile, nextRemote, pc, bl_jobs,
                    new_job, failed_jobs, status_code, snapshot, idx, hist,
                    cfg >>
    /\ UNCHANGED << vd, queue, w, conf, flt, xp >>

NextJob ==
    \/ JcExport
    \/ JcSend
    \/ JcCleanup

SpecJob == InitJob /\ [][NextJob]_vars

-----------------------------------------------------------------------------
(* EventsExportFilter.export_events *)

\* longest list of events given to export_events
MaxEvents == 3

\* the events: variable type, variable name, and the unit of the data
\* ("none" when the data have no unit key)
VarTypes == {"type1", "type2"}

VarNames == {"var10", "var20"}

Units == {"kWh", "W", "none"}

Events == [var_type : VarTypes, var_name : VarNames, unit : Units]

EventLists == UNION { [1..n -> Events] : n \in 0..MaxEvents }

\* the name of the series of an event: SERIES_NAME_PATTERN when the filter
\* prefixes with the type, the variable name otherwise
series_name(evt, prefix) ==
    IF prefix THEN << evt.var_type, "_", evt.var_name >>
    ELSE << evt.var_name >>

\* the filter keeps the events in kWh only
keeps(evt) == evt.unit = "kWh"

\* the for loop of export_events from event i on; acc is what the earlier
\* events have left.  The lookup of the unit fails with KeyError when the
\* data have none; an event that is not kept is skipped before it is
\* counted; the file of a series is made with the first event of it
RECURSIVE export_loop(_, _, _, _)
export_loop(events, i, prefix, acc) ==
    IF i > Len(events) THEN acc
    ELSE LET evt == events[i]
             name == series_name(evt, prefix)
             new == name \notin DOMAIN acc.written IN
         IF evt.unit = "none" THEN [acc EXCEPT !.raised = "KeyError"]
         ELSE IF ~keeps(evt) THEN export_loop(events, i + 1, prefix, acc)
         ELSE export_loop(events, i + 1, prefix,
                 [acc EXCEPT
                    !.count = @ + 1,
                    !.files = IF new THEN Append(@, name) ELSE @,
                    !.written = IF new THEN DictPut(@, name, << i >>)
                                ELSE [@ EXCEPT ![name] = Append(@, i)]])

\* a filter is made and given a list of events
InitFilter ==
    /\ InitStores
    /\ InitProcess
    /\ vd = NoVd
    /\ queue = NoQueue
    /\ w = NoW
    /\ conf = NoConf
    /\ jcall = NoJcall
    /\ xp = NoXp
    /\ \E events \in EventLists, prefix \in BOOLEAN :
          flt = [NoFlt EXCEPT !.events = events, !.prefix = prefix]

\* export_events(events)
FilterExport ==
    /\ ~flt.called
    /\ flt' = export_loop(flt.events, 1, flt.prefix,
                          [flt EXCEPT !.called = TRUE])
    /\ UNCHANGED << exportVars, vd, queue, w, conf, jcall, xp >>

NextFilter == FilterExport

SpecFilter == InitFilter /\ [][NextFilter]_vars

-----------------------------------------------------------------------------
(* ProcessConfiguration.load_dict *)

\* number of calls of load_dict made on one ProcessConfiguration object
MaxLoads == 2

\* A JSON dictionary is a function from the paths of its nodes (the keys
\* from the root down) to what is there: an integer, a string (n tells one
\* string from another) or a dictionary; the root is at the empty path.
IntV(n) == [type |-> "integer", n |-> n]

StrV(n) == [type |-> "string", n |-> n]

ObjV == [type |-> "object", n |-> 0]

\* the empty dictionary
EmptyDict == << >> :> ObjV

\* q is path, or a path below path
Below(q, path) ==
    /\ Len(q) >= Len(path)
    /\ SubSeq(q, 1, Len(path)) = path

\* the keys of the dictionary at path
Keys(u, path) ==
    { q[Len(path) + 1] :
         q \in { r \in DOMAIN u : Len(r) = Len(path) + 1 /\ Below(r, path) } }

\* copy.deepcopy of the value at path q
Subtree(u, q) == [r \in { r \in DOMAIN u : Below(r, q) } |-> u[r]]

\* DEFAULTS
DEFAULTS ==
    EmptyDict
    @@ (<< "date_offset" >> :> IntV(1))
    @@ (<< "server" >> :> ObjV)
    @@ (<< "server", "connect_timeout" >> :> IntV(60))
    @@ (<< "api_urls" >> :> ObjV)
    @@ (<< "api_urls", "data_upload" >> :> StrV(1))
    @@ (<< "api_urls", "defs_upload" >> :> StrV(2))
    @@ (<< "api_urls", "job_status" >> :> StrV(3))
    @@ (<< "retries" >> :> ObjV)
    @@ (<< "retries", "max_attempts" >> :> IntV(3))
    @@ (<< "retries", "delay" >> :> IntV(10))
    @@ (<< "status_monitoring_period" >> :> IntV(60))

\* SCHEMA: the type each property must have, with the minimum of the
\* integers
SchemaProperties ==
    (<< >> :> "object")
    @@ (<< "site_code" >> :> "string")
    @@ (<< "date_offset" >> :> "integer")
    @@ (<< "report_to" >> :> "string")
    @@ (<< "server" >> :> "object")
    @@ (<< "server", "host" >> :> "string")
    @@ (<< "server", "auth" >> :> "object")
    @@ (<< "server", "auth", "login" >> :> "string")
    @@ (<< "server", "auth", "password" >> :> "string")
    @@ (<< "server", "connect_timeout" >> :> "integer")
    @@ (<< "api_urls" >> :> "object")
    @@ (<< "api_urls", "data_upload" >> :> "string")
    @@ (<< "api_urls", "defs_upload" >> :> "string")
    @@ (<< "api_urls", "job_status" >> :> "string")
    @@ (<< "retries" >> :> "object")
    @@ (<< "retries", "max_attempts" >> :> "integer")
    @@ (<< "retries", "delay" >> :> "integer")
    @@ (<< "status_monitoring_period" >> :> "integer")

\* SCHEMA: "minimum" of every integer property
SchemaMinimum == 1

\* SCHEMA: the "required" keys of the dictionaries that have some
SchemaRequired ==
    (<< >> :> {"site_code"})
    @@ (<< "server" >> :> {"host"})
    @@ (<< "server", "auth" >> :> {"login", "password"})

\* jsonschema.validate(cfg, SCHEMA) raises nothing
Validates(c) ==
    /\ \A q \in DOMAIN c \cap DOMAIN SchemaProperties :
          /\ c[q].type = SchemaProperties[q]
          /\ c[q].type = "integer" => c[q].n >= SchemaMinimum
    /\ \A q \in DOMAIN c \cap DOMAIN SchemaRequired :
          SchemaRequired[q] \subseteq Keys(c, q)

\* _deep_update(d, u), for the keys given of the dictionary of u at path: a
\* key that d lacks is copied with all that is below it; for a key that d
\* has, the dictionary below it is gone through, and a value that is not a
\* dictionary is left aside
RECURSIVE _deep_update(_, _, _, _)
_deep_update(d, u, path, keys) ==
    IF keys = {} THEN d
    ELSE LET k == CHOOSE key \in keys : TRUE
             q == Append(path, k)
             d1 == IF q \notin DOMAIN d
                   THEN Subtree(u, q) @@ d
                   ELSE IF u[q].type = "object"
                        THEN _deep_update(d, u, q, Keys(u, q))
                        ELSE d
         IN _deep_update(d1, u, path, keys \ {k})

\* the dictionary load_dict validates: a copy of DEFAULTS updated with data
Merged(data) == _deep_update(DEFAULTS, data, << >>, Keys(data, << >>))

\* the exception load_dict ends with when the validation fails: the except
\* clause calls jsonschema.ValidationError with no argument, which raises
\* TypeError before ConfigurationError is made
load_dict_exc == "TypeError"

\* the dictionaries given to load_dict: each option is left out or given,
\* well or badly
SiteCodes == { << >>,
               << "site_code" >> :> StrV(7),
               << "site_code" >> :> IntV(5) }

DateOffsetOpts == { << >>,
                    << "date_offset" >> :> IntV(3),
                    << "date_offset" >> :> IntV(0) }

RetriesOpts ==
    { << >>,
      << "retries" >> :> ObjV,
      (<< "retries" >> :> ObjV) @@ (<< "retries", "max_attempts" >> :> IntV(5)),
      (<< "retries" >> :> ObjV) @@ (<< "retries", "delay" >> :> IntV(2)),
      (<< "retries" >> :> ObjV) @@ (<< "retries", "max_attempts" >> :> IntV(5))
         @@ (<< "retries", "delay" >> :> IntV(2)) }

PeriodOpts == { << >>, << "status_monitoring_period" >> :> IntV(30) }

ServerOpts ==
    { << >>,
      (<< "server" >> :> ObjV) @@ (<< "server", "host" >> :> StrV(8)),
      (<< "server" >> :> ObjV) @@ (<< "server", "host" >> :> StrV(8))
         @@ (<< "server", "connect_timeout" >> :> IntV(5)) }

ConfInputs ==
    { EmptyDict @@ a @@ b @@ c @@ d @@ e :
         a \in SiteCodes, b \in DateOffsetOpts, c \in RetriesOpts,
         d \in PeriodOpts, e \in ServerOpts }

\* ProcessConfiguration()
InitConf ==
    /\ InitStores
    /\ InitProcess
    /\ vd = NoVd
    /\ queue = NoQueue
    /\ w = NoW
    /\ conf = NoConf
    /\ flt = NoFlt
    /\ jcall = NoJcall
    /\ xp = NoXp

\* load_dict(data): data is put in self.data once the defaults are merged in
\* and the validation has passed
ConfLoadDict ==
    /\ conf.calls < MaxLoads
    /\ \E data \in ConfInputs :
          LET c == Merged(data)
              called == [conf EXCEPT !.calls = @ + 1, !.input = data,
                                     !.data0 = conf.data] IN
          conf' = IF Validates(c)
                  THEN [called EXCEPT !.data = c, !.raised = "none"]
                  ELSE [called EXCEPT !.raised = load_dict_exc]
    /\ UNCHANGED << exportVars, vd, queue, w, flt, jcall, xp >>

NextConf == ConfLoadDict

SpecConf == InitConf /\ [][NextConf]_vars

-----------------------------------------------------------------------------
(* Properties of DWHEventsExportProcess.run *)

\* the run is over: it returned, or an exception left it
RunOver == pc \in {"returned", "raised"}

\* the jobs whose run returned an error code in the current run
FailedInRun == { j \in DOMAIN hist.results : hist.results[j] # ERR_NONE }

\* the entries the iteration has to run: the backlog once the job is put
ToRun == bl_jobs \cup {new_job}

\* C1: in every run, the job of the day is already in the durable backlog
\* when the first job is activated, and no payload build or upload of the
\* run happens before that put.
C1_PutBeforeExecute ==
    /\ (hist.acted \/ hist.executed # << >>) => hist.put
    /\ (hist.executed # << >> /\ ~hist.acted) => new_job \in DOMAIN backlog

\* the job of the day has been put and its own upload has got a reply
C1_Witness ==
    /\ pc = "posted"
    /\ hist.put
    /\ job.id = new_job
    /\ bl_jobs # {}

\* C2: an entry that was put and not removed when the process is killed is
\* still in the backlog after the kill, and the invocation that follows the
\* kill executes it.
C2_CrashSafety ==
    /\ pc = "idle" => hist.orphans \subseteq DOMAIN backlog
    /\ RunOver => hist.orphans \subseteq Range(hist.executed)

\* C3: an entry the run has processed is out of the backlog if and only if
\* its job returned 0; an entry whose job returned an error or raised is
\* still in the backlog.
C3_RemovedIffSuccess ==
    /\ \A i \in 1..Len(hist.executed) :
          i < idx => LET j == hist.executed[i] IN
                     /\ j \in DOMAIN hist.results
                     /\ (hist.results[j] = ERR_NONE) <=> (j \notin DOMAIN backlog)
    /\ \A j \in hist.raised : j \in DOMAIN backlog

\* a finished run in which one job failed and another one succeeded
C3_Witness ==
    /\ pc = "returned"
    /\ \E a, b \in DOMAIN hist.results :
          /\ hist.results[a] # ERR_NONE /\ a \in DOMAIN backlog
          /\ hist.results[b] = ERR_NONE /\ b \notin DOMAIN backlog

\* C4: the value run() returns is 0 when no job failed, the code of the
\* failed job when exactly one failed, ERR_MULTIPLE when several failed; it
\* is not 0 when a job failed.
C4_StatusCode ==
    pc = "returned" =>
        /\ FailedInRun = {} => status_code = ERR_NONE
        /\ \A j \in FailedInRun :
              FailedInRun = {j} => status_code = hist.results[j]
        /\ Cardinality(FailedInRun) > 1 => status_code = ERR_MULTIPLE
        /\ FailedInRun # {} => status_code # 0

\* a finished run in which two jobs failed with different codes
C4_Witness ==
    /\ pc = "returned"
    /\ status_code = ERR_MULTIPLE
    /\ \E a, b \in FailedInRun : hist.results[a] # hist.results[b]

\* C5: when run() has returned, failed_jobs maps exactly the jobs that
\* failed in this run to the code each returned, whatever it held before
\* the run, and its keys are the entries left in the backlog.
C5_FailedJobs ==
    pc = "returned" =>
        /\ failed_jobs = [j \in FailedInRun |-> hist.results[j]]
        /\ DOMAIN failed_jobs = DOMAIN backlog

\* a finished run, of an object whose previous run left a failed job that
\* has now succeeded, and in which another job failed
C5_Witness ==
    /\ pc = "returned"
    /\ \E j \in hist.stale : j \in DOMAIN hist.results /\ hist.results[j] = ERR_NONE
    /\ FailedInRun # {}

\* C6: an invocation executes every entry of the backlog as it is once the
\* job of the day is put, each exactly once.
C6_EachEntryOnce ==
    RunOver =>
        /\ Range(hist.executed) = ToRun
        /\ Len(hist.executed) = Cardinality(ToRun)

\* C7: a job that returns an error code or raises does not prevent the
\* entries that follow it in the iteration from being executed.
C7_Isolation ==
    RunOver =>
        \A i \in 1..Len(snapshot) :
            snapshot[i] \in FailedInRun \cup hist.raised =>
                \A k \in i..Len(snapshot) : snapshot[k] \in Range(hist.executed)

\* C8: when a job raises an unexpected exception, its entry stays in the
\* backlog, no exception leaves run(), and the run returns a non-zero code
\* with the job recorded in failed_jobs.
C8_UnexpectedException ==
    \A j \in hist.raised :
        /\ j \in DOMAIN backlog
        /\ pc # "raised"
        /\ pc = "returned" => status_code # 0 /\ j \in DOMAIN failed_jobs

\* C9: the remote job id of an accepted upload is in the pending queue file
\* when send_data has returned, and so whenever the entry of that job has
\* been removed from the backlog.
C9_RegisteredBeforeRemoval ==
    /\ (pc \in {"cleanup", "jobdone"} /\ job.resp = "ok_id") =>
           Str(job.remote) \in PendingIds(pendingFile)
    /\ \A j \in DOMAIN hist.accepted :
           j \notin DOMAIN backlog =>
               Str(hist.accepted[j]) \in PendingIds(pendingFile)

\* the entry of a job whose upload was accepted has been removed
C9_Witness ==
    \E j \in DOMAIN hist.accepted :
        /\ j \notin DOMAIN backlog
        /\ Str(hist.accepted[j]) \in PendingIds(pendingFile)

\* C10: when the 2xx reply carries no jobID, send_data still returns
\* normally, so that the job ends with success.
C10_NoJobId ==
    (pc \in {"cleanup", "jobdone"} /\ job.resp = "ok_noid") =>
        /\ job.exc = "none"
        /\ job.error = ERR_NONE

-----------------------------------------------------------------------------
(* Properties of DWHVariableDefinitionsExportProcess.run *)

\* the loop of POSTs is over and run() is about to return or has returned
VdOver == vd.pc \in {"end", "returned"}

\* every POST made so far got a non-2xx reply
VdAllFailed == \A i \in 1..Len(vd.posts) : vd.posts[i].reply = "fail"

\* one of the POSTs made so far got a 2xx reply
VdSomeOk == \E i \in 1..Len(vd.posts) : vd.posts[i].reply = "ok"

C12_UploadErrorCode ==
    (vd.pc = "returned" /\ vd.built /\ ~vd.done) =>
        /\ vd.ret = ERR_UPLOAD
        /\ vd.ret # ERR_EXPORT

\* C13: a POST that raises (no reply) counts as a failed attempt: no
\* exception leaves the loop, and the run waits and tries again or ends.
C13_TransportError ==
    \A i \in 1..Len(vd.posts) :
        vd.posts[i].reply = "raise" =>
            /\ vd.exc = "none"
            /\ vd.pc \in {"sleep", "loop", "end", "returned"}

\* C14: run() returns 0 if and only if the payload was built and a POST got
\* a 2xx reply; the 2xx reply is the last POST of the run, at most
\* max_attempts POSTs are made, and no wait follows it.
C14_SuccessIffAccepted ==
    /\ vd.pc = "returned" => (vd.ret = ERR_NONE <=> (vd.built /\ VdSomeOk))
    /\ vd.pc # "idle" =>
          /\ Len(vd.posts) <= vd.max_try
          /\ \A i \in 1..Len(vd.posts) :
                vd.posts[i].reply = "ok" =>
                    /\ i = Len(vd.posts)
                    /\ vd.sleeps = i - 1
                    /\ vd.pc \in {"loop", "end", "returned"}

\* a run has returned 0 after one failed POST and one accepted POST
C14_Witness ==
    /\ vd.pc = "returned"
    /\ vd.ret = ERR_NONE
    /\ Len(vd.posts) = 2
    /\ vd.posts[2].reply = "ok"

\* C16: when the build of the definitions fails, run() makes no POST and
\* returns ERR_EXPORT.
C16_BuildFailure ==
    (vd.pc # "idle" /\ ~vd.built) =>
        /\ vd.posts = << >>
        /\ vd.sleeps = 0
        /\ vd.pc = "returned" => vd.ret = ERR_EXPORT

\* a run whose build failed has returned
C16_Witness ==
    /\ vd.pc = "returned"
    /\ ~vd.built
    /\ vd.ret = ERR_EXPORT


(* Properties of a DWHEventsExportJob: empty days and temporary files *)

\* C15: a job whose day has no matching record makes no HTTP call and adds
\* nothing to the pending queue file; it ends with a zero events count and
\* the success code, and once processed its entry is out of the backlog.
C15_NoRecords ==
    /\ job.id \in hist.zero =>
          /\ job.evt_count = 0
          /\ job.cnt = 0
          /\ job.resp = "none"
          /\ job.error = ERR_NONE
          /\ job.exc = "none"
          /\ job.id \notin DOMAIN hist.accepted
          /\ pendingFile = hist.file0
    /\ \A j \in hist.zero :
          j \in DOMAIN hist.results => hist.results[j] = ERR_NONE
    /\ \A i \in 1..Len(hist.executed) :
          (i < idx /\ hist.executed[i] \in hist.zero) =>
             /\ hist.executed[i] \notin DOMAIN backlog
             /\ hist.executed[i] \notin DOMAIN failed_jobs

\* a finished run in which one job had no record, after another job's
\* upload was accepted and registered in the pending queue
C15_Witness ==
    /\ pc = "returned"
    /\ job.id \in hist.zero
    /\ job.id \notin DOMAIN backlog
    /\ hist.accepted # EmptyMap
    /\ pendingFile # << >>

\* C17: when a job's run is over, none of the series files and archive it
\* made is left on disk, except the archive in debug mode.
C17_TempFilesDeleted ==
    pc = "jobdone" => job.files \subseteq (IF cfg.debug THEN {"archive"} ELSE {})


(* Properties of the extraction date *)

\* C30: the extraction date stored in the new backlog entry is the current
\* date minus the absolute value of the day offset: it is never later than
\* the current date, and the opposite offset gives the same date.
C30_ExtractDate ==
    (hist.put /\ new_job \in DOMAIN backlog) =>
       LET date == backlog[new_job].date IN
       /\ date <= new_job
       /\ date = new_job - (IF hist.offset < 0 THEN -hist.offset ELSE hist.offset)
       /\ \A time \in 0..(DayUnits - 1) :
             date = extract_date(new_job * DayUnits + time, -hist.offset)

\* the entry of the day was put with a negative offset
C30_Witness ==
    /\ hist.put
    /\ new_job \in DOMAIN backlog
    /\ hist.offset < 0
    /\ backlog[new_job].date < new_job

-----------------------------------------------------------------------------
(* Properties of PendingJobsQueue *)

\* the ids of a list are all different
NoDuplicate(ids) ==
    \A i, k \in 1..Len(ids) : ids[i] = ids[k] => i = k

\* the last two calls were remove() with the same id
RemovedTwice ==
    /\ queue.op = "remove"
    /\ queue.op0 = "remove"
    /\ queue.arg = queue.arg0

\* C18: whatever calls were made, an id is at most once in items() and in
\* the storage file.
C18_NoDuplicates ==
    queue.obj => /\ NoDuplicate(queue.job_ids)
                 /\ NoDuplicate(PendingLoad(pendingFile))

\* C19 as stated: a second remove() of the same id changes nothing and
\* raises nothing.
C19_IdempotentRemoval ==
    RemovedTwice => /\ queue.raised = "none"
                    /\ queue.job_ids = queue.ids0
                    /\ pendingFile = queue.file0

\* C19: a second remove() of the same id, when no occurrence of it is left
\* in the list, changes neither the list nor the storage file and raises
\* ValueError.
C19_SecondRemoveRaises ==
    (RemovedTwice /\ Str(queue.arg) \notin Range(queue.ids0)) =>
       /\ queue.raised = "ValueError"
       /\ queue.job_ids = queue.ids0
       /\ pendingFile = queue.file0

\* the first remove() took the id out of a list that keeps another id, the
\* second one raised
C19_Witness ==
    /\ RemovedTwice
    /\ queue.raised0 = "none"
    /\ queue.raised = "ValueError"
    /\ queue.job_ids # << >>

\* C20: a queue made on a missing file is empty and the file is then on
\* disk; after the construction and after every append, remove and clear,
\* a queue loaded from the file has the ids of the list in memory, in the
\* same order.
C20_Durable ==
    queue.obj =>
       /\ queue.exists
       /\ PendingLoad(pendingFile) = queue.job_ids
       /\ (queue.op = "new" /\ ~queue.existed0) =>
             (queue.job_ids = << >> /\ pendingFile = << >>)

\* a list of three ids, one of two digits, with a removal behind it, made
\* by a queue whose file was missing at first
C20_Witness ==
    /\ queue.obj
    /\ Len(queue.job_ids) = MaxQueue
    /\ Str(12) \in Range(queue.job_ids)
    /\ Str(1) \in Range(queue.job_ids)
    /\ queue.op = "append"
    /\ queue.op0 = "remove"
    /\ queue.raised0 = "none"


-----------------------------------------------------------------------------
(* Properties of the Worker of dwh-monitord *)

\* the polling phase the Worker entered is over and its locals still there
PhaseOver == w.pc = "check" /\ w.entered

\* every status request of the phase got a 2xx reply with a completion code
AllReplied ==
    \A id \in Range(w.items) :
       id \in DOMAIN w.replies /\ w.replies[id].kind = "ok"

\* the ids of the snapshot whose completion code says in process
InProcess == { id \in Range(w.items) : w.replies[id].code > 0 }

\* C21: after a polling phase in which every status request got a 2xx reply
\* (and no one else wrote the queue), the queue holds the ids of the
\* snapshot whose code was > 0 and no other: those with code 0 or < 0 are
\* removed.
C21_TerminalTransitions ==
    (PhaseOver /\ AllReplied /\ ~w.ext) =>
       /\ PendingIds(pendingFile) = InProcess
       /\ Range(w.job_ids) = InProcess

\* the queue held 1, 2 and 3, the replies were 0, -3 and 1: it holds 3
C21_Witness ==
    /\ PhaseOver /\ AllReplied /\ ~w.ext
    /\ w.items = << Str(1), Str(2), Str(3) >>
    /\ w.replies[Str(1)].code = 0
    /\ w.replies[Str(2)].code = -3
    /\ w.replies[Str(3)].code = 1
    /\ PendingIds(pendingFile) = {Str(3)}

\* C22: an id whose status request got a non-2xx reply stays in the queue;
\* the Worker removes an id only after a reply with code <= 0; an id whose
\* check failed is polled again in every later polling phase.
C22_HttpFailureKeepsId ==
    /\ \A id \in DOMAIN w.replies :
          w.replies[id].kind = "fail" => id \in Range(w.job_ids)
    /\ \A id \in Range(w.items) \ Range(w.job_ids) :
          /\ id \in DOMAIN w.replies
          /\ w.replies[id].kind = "ok"
          /\ w.replies[id].code <= 0
    /\ w.pc \in {"check", "done", "raised"} =>
          (w.failed \cap Range(w.items)) \subseteq w.polled

\* C23: no failed status check ends the loop of the Worker.
C23_NeverAborts == w.pc # "raised"

\* C24: an id appended by an export process and still in the file is polled
\* in the polling phase that follows, which comes no later than the period
\* plus one tick after the append.
C24_AppendedIsPolled ==
    /\ \A id \in DOMAIN w.age \cap PendingIds(pendingFile) :
          w.age[id] <= w.period + TERMINATE_CHECK_PERIOD
    /\ w.pc = "raised" => DOMAIN w.age \cap PendingIds(pendingFile) = {}

\* C25: an id appended after an accepted upload is in the stored queue until
\* the Worker has seen a terminal status for it or it is removed by hand.
C25_NoLostId == w.owed \subseteq PendingIds(pendingFile)

\* C26: once terminate() is called the Worker polls every id left of the
\* polling phase in progress, if any, and leaves the loop without beginning
\* another polling phase.
C26_Termination ==
    w.terminated =>
       /\ ~w.late_poll
       /\ w.pc \in {"done", "raised"} => Range(w.items) \subseteq w.polled

\* C27: a tick enters a polling phase if and only if the time elapsed since
\* the last check is at least the period; status requests are made in such
\* a tick only; the first tick polls.
C27_PollIffDue ==
    /\ w.pc \in {"poll", "wait"} => w.tick_since >= w.period
    /\ w.pc \in {"poll", "wait", "check"} =>
          (w.entered <=> w.tick_since >= w.period)
    /\ (w.first /\ w.pc \notin {"start", "tick"}) => w.entered

\* a tick of a Worker of period 2 that did not poll, one second after a
\* polling phase
C27_Witness ==
    /\ w.pc = "check"
    /\ ~w.entered
    /\ ~w.first
    /\ w.period = 2
    /\ w.tick_since = 1

\* C28: an id of the stored queue for which the server ends up replying
\* with a terminal code is removed from the stored queue in the end, as
\* long as the Worker runs.
C28_Reconciliation ==
    \A n \in 1..MaxWatchJobs :
       (Str(n) \in PendingIds(pendingFile))
          ~> (Str(n) \notin PendingIds(pendingFile) \/ w.pc = "raised")

\* the Worker has removed an id whose check had failed in an earlier phase
C28_Witness ==
    /\ w.last.id # << >>
    /\ w.last.retried
    /\ w.pc = "poll"
    /\ w.last.id \notin PendingIds(pendingFile)

\* C29: when the Worker removes an id that another actor has taken out of
\* the stored queue since the Worker loaded it, nothing is raised and the
\* loop goes on.
C29_ToleratesRemoved ==
    (w.last.id # << >> /\ ~w.last.stored) =>
       (w.exc = "none" /\ w.pc = "poll")

\* the Worker has removed an id that was no longer stored, other ids are
\* left to poll
C29_Witness ==
    /\ w.last.id # << >>
    /\ ~w.last.stored
    /\ w.pc = "poll"
    /\ w.i <= Len(w.items)

-----------------------------------------------------------------------------
(* Properties of ProcessConfiguration.load_dict *)

\* the paths of a dictionary that hold an option: a value that is not a
\* dictionary
Options(u) == { q \in DOMAIN u : u[q].type # "object" }

\* C31: load_dict validates the configuration with the defaults merged in:
\* when it is not valid the call fails with ConfigurationError and data is
\* as it was before the call; data is replaced only when the validation
\* passes.
C31_ValidatedBeforeUse ==
    conf.calls > 0 =>
       IF Validates(Merged(conf.input))
       THEN conf.raised = "none" /\ conf.data = Merged(conf.input)
       ELSE conf.raised = "ConfigurationError" /\ conf.data = conf.data0

\* C32: after a load_dict that passed, the configuration holds the loaded
\* value of every option the loaded data provides, and the DEFAULTS value
\* of the options it omits.
C32_DefaultsOnlyForOmitted ==
    (conf.calls > 0 /\ conf.raised = "none") =>
       /\ \A q \in Options(conf.input) :
             q \in DOMAIN conf.data /\ conf.data[q] = conf.input[q]
       /\ \A q \in Options(DEFAULTS) \ DOMAIN conf.input :
             q \in DOMAIN conf.data /\ conf.data[q] = DEFAULTS[q]

-----------------------------------------------------------------------------
(* Properties of the stores and of the payload of the definitions export *)

\* C35: a run of DWHVariableDefinitionsExportProcess, whatever its path
\* (build failure, success, attempts exhausted, exception), leaves the
\* backlog and the pending queue file as it found them.
C35_StoresUntouched ==
    vd.pc # "idle" => (backlog = vd.backlog0 /\ pendingFile = vd.file0)

\* a run has returned a failure after all its attempts, with an entry in the
\* backlog and ids in the pending queue file
C35_Witness ==
    /\ vd.pc = "returned"
    /\ vd.built /\ ~vd.done
    /\ Len(vd.posts) = vd.max_try
    /\ backlog # EmptyMap
    /\ pendingFile # << >>

\* C36: every POST of one run, the first and each retry alike, sends the
\* whole payload: the temporary file is read from its start.
C36_WholePayload ==
    \A i \in 1..Len(vd.posts) : vd.posts[i].body = "whole"

-----------------------------------------------------------------------------
(* More properties of PendingJobsQueue and of the Worker *)

\* C37: remove() of an id that is not in the list raises ValueError and
\* leaves the list in memory and the storage file as they were.
C37_RemoveAbsent ==
    (queue.op = "remove" /\ Str(queue.arg) \notin Range(queue.ids0)) =>
       /\ queue.raised = "ValueError"
       /\ queue.job_ids = queue.ids0
       /\ pendingFile = queue.file0

\* right after an append, remove() of another id has raised; the list and
\* the file hold the appended id
C37_Witness ==
    /\ queue.op = "remove"
    /\ queue.op0 = "append"
    /\ queue.arg # queue.arg0
    /\ queue.raised = "ValueError"
    /\ queue.job_ids = << Str(queue.arg0) >>
    /\ PendingLoad(pendingFile) = << Str(queue.arg0) >>

\* the ids of the polling phase in progress found with a terminal status
FoundTerminal ==
    { id \in DOMAIN w.replies :
         w.replies[id].kind = "ok" /\ w.replies[id].code <= 0 }

\* C34: at every step of a polling phase (no one else writing the file),
\* the stored queue is the list the phase began with less the ids found
\* terminal so far: each removal is in the file before the next status
\* request, and the ids not polled yet are all there.  A Watcher killed at
\* that step leaves the file so.
C34_RemovalStoredAtOnce ==
    (w.pc \in {"poll", "wait", "raised"} /\ ~w.ext) =>
       /\ PendingLoad(pendingFile)
             = SelectSeq(w.items, LAMBDA id : id \notin FoundTerminal)
       /\ Range(w.items) \ w.polled \subseteq PendingIds(pendingFile)

\* the status request for the third id is in flight: the first id was found
\* terminal and is out of the file, the second is in process
C34_Witness ==
    /\ w.pc = "wait" /\ ~w.ext
    /\ Len(w.items) = 3 /\ w.i = 3
    /\ w.items[1] \in FoundTerminal
    /\ w.items[2] \notin FoundTerminal
    /\ PendingLoad(pendingFile) = << w.items[2], w.items[3] >>


\* the ids export processes have appended that the Worker has found with a
\* terminal status since
SeenTerminal == { Str(n) : n \in 1..(w.next - 1) } \ w.owed

\* C33: whatever the interleaving of the load, append and save of an export
\* process with the removals of the Worker, an id the Worker has removed
\* after a terminal status is not in the stored queue again.
C33_NoResurrection == SeenTerminal \cap PendingIds(pendingFile) = {}

-----------------------------------------------------------------------------
(* Properties of the archive reference of a DWHEventsExportJob *)

\* C38: after export_events the job references an archive only if that call
\* has built one (the reference it found is dropped first); after cleanup
\* it references none, and cleanup raises nothing; a cleanup of a job with
\* no archive deletes no file; send_data of a job with no archive makes no
\* POST, appends nothing to the pending queue and raises nothing.
C38_ArchiveReference ==
    /\ jcall.op = "export_events" =>
          (job.archive <=> jcall.outcome \in {"filtered", "some"})
    /\ jcall.op = "cleanup" =>
          /\ ~job.archive
          /\ jcall.raised = "none"
          /\ ~jcall.archive0 => job.files = jcall.files0
    /\ (jcall.op = "send_data" /\ ~jcall.archive0) =>
          /\ ~jcall.posted
          /\ pendingFile = jcall.file0
          /\ jcall.raised = "none"

\* send_data has been called after the cleanup of a job whose upload had
\* been accepted: it has left the pending queue as it was
C38_Witness ==
    /\ jcall.op = "send_data"
    /\ jcall.op0 = "cleanup"
    /\ ~jcall.archive0
    /\ ~jcall.posted
    /\ job.resp = "ok_id"
    /\ Str(job.remote) \in PendingIds(pendingFile)

-----------------------------------------------------------------------------
(* Properties of EventsExportFilter.export_events *)

\* the series of the events of a list
SeriesOf(events, prefix) ==
    { series_name(events[i], prefix) : i \in 1..Len(events) }

\* C39: export_events returns the number of events it was given and one
\* file per series among them, and each event is written to the file of its
\* series.
C39_CountAndFiles ==
    flt.called =>
       /\ flt.raised = "none"
       /\ flt.count = Len(flt.events)
       /\ Len(flt.files) = Cardinality(SeriesOf(flt.events, flt.prefix))
       /\ Range(flt.files) = SeriesOf(flt.events, flt.prefix)
       /\ \A i \in 1..Len(flt.events) :
             i \in Range(flt.written[series_name(flt.events[i], flt.prefix)])
====
